---- MODULE Spec2Model ----
(***************************************************************************)
(* AnonForum backend: the Post and Comment collections, the model methods  *)
(* and save hooks of backend/models, the posts routes and the rate         *)
(* limiters of backend/middleware/security.js and backend/server.js.       *)
(*                                                                         *)
(* Time is Date.now() in milliseconds.  A Mongoose document loaded by a    *)
(* handler is a private copy; save() writes back the paths the handler     *)
(* modified.  The user-defined pre('save') hooks are taken to run before   *)
(* the schema's validators and the write, as the hooks' comments assume.   *)
(***************************************************************************)
EXTENDS Integers, FiniteSets, Sequences, TLC

\* ---------------------------------------------------------------- bounds
MaxPosts == 1          \* posts created where the clock or requests interleave
MaxComments == 1       \* comments created by requests handled one at a time
MaxInFlight == 2       \* requests being handled at the same time
MaxMs == 1             \* single-millisecond clock steps within a week
MaxWeeks == 1          \* seven-day clock steps
MaxLikes == 2          \* like calls accepted per post
MaxFlagCalls == 7      \* flag calls accepted per post
MaxCommentFlags == 4   \* flag calls accepted per comment
MaxOver == 1           \* requests counted beyond a limiter's max per window
RandomSteps == 16      \* Math.random() returns k / RandomSteps, 0 <= k < RandomSteps
MaxUrls == 4           \* URLs in one submitted content
MaxCounted == 3        \* requests the limiters count
MaxPieces == 4         \* pieces in a string handed to sanitizeInput
MaxPages == 3          \* pages of posts the list route has
MaxShown == 3          \* posts the frontend holds before it stops scrolling
MaxQueryLen == 3       \* characters in a page or limit query value
MaxTotal == 4          \* posts a list query matches

\* ------------------------------------------------------ program constants
SevenDays == 604800000           \* 7 * 24 * 60 * 60 * 1000
PostFlagThreshold == 5
CommentFlagThreshold == 3
NoDate == -1                     \* a Date path that is not set
PostMax == 5                     \* postLimiter: max
LikeMax == 10                    \* like limiter: max
FlagMax == 3                     \* flag limiter: max
PostWindowMs == 300000           \* 5 * 60 * 1000
LikeWindowMs == 60000            \* 60 * 1000
FlagWindowMs == 300000           \* 5 * 60 * 1000
BodyLimitKb == 10                \* express.json limit: '10kb'
MaxSizeKb == 50                  \* requestSizeLimiter: 50 * 1024 bytes
DefaultLimit == 20               \* parseInt(req.query.limit) || 20
MaxLimit == 50                   \* Math.min(50, ...)

Categories == {"general", "tech"}

Scopes == {"post", "like", "flag"}
Keys == {"a", "b"}

\* The ids a request may name: those of stored posts and one of none.
PostIds == 1..(MaxPosts + 1)
Slots == 1..MaxInFlight

\* ------------------------------------------------------------- documents
\* new Post({...}) with the schema defaults; expiresAt is not given.
NewPost(cat, t) ==
    [createdAt |-> t, expiresAt |-> NoDate, category |-> cat,
     isDeleted |-> FALSE, isFlagged |-> FALSE, flagCount |-> 0,
     likes |-> 0, commentCount |-> 0]

\* new Comment({postId, ...}) with the schema defaults.
NewComment(p, t) ==
    [postId |-> p, createdAt |-> t, expiresAt |-> NoDate,
     isDeleted |-> FALSE, isFlagged |-> FALSE, flagCount |-> 0]

\* postSchema.pre('save'): expiresAt is set from the clock when it is not set.
PreSavePost(doc, t) ==
    IF doc.expiresAt = NoDate THEN [doc EXCEPT !.expiresAt = t + SevenDays] ELSE doc

\* A like that counts an origin once.
incrementLikesOnce(doc) == [doc EXCEPT !.likes = 1]

incrementLikes(doc) == [doc EXCEPT !.likes = @ + 1]

incrementComments(doc) == [doc EXCEPT !.commentCount = @ + 1]

decrementComments(doc) ==
    IF doc.commentCount > 0 THEN [doc EXCEPT !.commentCount = @ - 1] ELSE doc

softDelete(doc) == [doc EXCEPT !.isDeleted = TRUE]

\* flag() with the threshold test off by one.
flagPostLate(doc) ==
    LET d == [doc EXCEPT !.flagCount = @ + 1]
    IN  IF d.flagCount > PostFlagThreshold THEN [d EXCEPT !.isFlagged = TRUE] ELSE d

\* flag() that recomputes isFlagged from the count it holds.
flagPostRecomputed(doc) ==
    LET d == [doc EXCEPT !.flagCount = @ + 1]
    IN  [d EXCEPT !.isFlagged = (d.flagCount >= PostFlagThreshold)]

flagPost(doc) ==
    LET d == [doc EXCEPT !.flagCount = @ + 1]
    IN  IF d.flagCount >= PostFlagThreshold THEN [d EXCEPT !.isFlagged = TRUE] ELSE d

flagComment(doc) ==
    LET d == [doc EXCEPT !.flagCount = @ + 1]
    IN  IF d.flagCount >= CommentFlagThreshold THEN [d EXCEPT !.isFlagged = TRUE] ELSE d

\* The paths of a document that differ from the copy that was loaded.
Modified(loaded, doc) == {f \in DOMAIN doc : doc[f] # loaded[f]}

\* Of a loaded copy, the paths its handler reads or sets before save().
Keep(doc, fields) == [f \in fields |-> doc[f]]

\* save() of a loaded document: only the modified paths are written.
SaveDelta(stored, doc, mod) ==
    [f \in DOMAIN stored |-> IF f \in mod THEN doc[f] ELSE stored[f]]


\* ----------------------------------------------------------------- state
VARIABLES
    now,          \* Date.now()
    posts,        \* the Post collection: id -> document
    comments,     \* the Comment collection: id -> document
    nextPost,     \* the next store-assigned Post id
    nextComment,  \* the next store-assigned Comment id
    reqs,         \* the requests being handled, each with its loaded copies
    resp,         \* the response sent last
    hits,         \* the rate limiters' counters: scope -> key -> requests
    accepted,     \* create-post requests handled in the window, per origin
    chain,        \* the create-post request in the middleware chain
    logs,         \* the entries written to the logger
    vault,        \* process.env.ENCRYPTION_KEY and the last values sealed and opened
    anon,         \* the label generateAnonId returned last
    buckets,      \* the five limiters' stores: scope -> key -> requests counted
    ui,           \* the frontend's AnonForum object and its requests in flight
    calc          \* the arguments and the result of the call evaluated last

vars == <<now, posts, comments, nextPost, nextComment, reqs, resp, hits, accepted,
          chain, logs, vault, anon, buckets, ui, calc>>

\* What the request checks, the encryption and the id generator leave alone.
rest == <<buckets, ui, calc>>

\* What the store, the routes and the limiters leave alone.
aux == <<chain, logs, vault, anon, buckets, ui, calc>>

limiter == <<hits, accepted>>

Idle ==
    [kind |-> "idle", pc |-> "", pid |-> 0, pdoc |-> <<>>,
     cid |-> 0, cdoc |-> <<>>, mod |-> {}]

NoResp ==
    [op |-> "none", status |-> 0, id |-> 0, ids |-> {}, n |-> 0, flagged |-> FALSE,
     retryAfter |-> 0, paths |-> {}, commentPaths |-> {}]

\* The paths of a stored Post and of a stored Comment, _id and the
\* timestamps option's updatedAt included.
PostPaths ==
    {"_id", "anonId", "title", "content", "category", "tags", "likes", "commentCount",
     "ipHash", "userAgent", "createdAt", "updatedAt", "expiresAt", "isDeleted",
     "isFlagged", "flagCount"}

CommentPaths ==
    {"_id", "postId", "anonId", "content", "ipHash", "userAgent", "createdAt",
     "updatedAt", "expiresAt", "isDeleted", "isFlagged", "flagCount"}

\* postSchema.set('toJSON', {transform}): the document's paths without
\* ipHash, userAgent and __v, with the virtual added.
toJSON(paths) == (paths \ {"ipHash", "userAgent", "__v"}) \cup {"timeUntilExpiry"}

\* The members of each post in a response: savedPost.toJSON() on creation,
\* the lean document spread into a new object on the reads.
PostMembers(op, status, ids) ==
    CASE op = "create" /\ status = 201 -> toJSON(PostPaths) \cup {"content"}
      [] op = "list" /\ ids # {} -> PostPaths \cup {"content", "totalPages", "currentPage"}
      [] op = "category" /\ ids # {} -> PostPaths \cup {"content"}
      [] op = "get" /\ status = 200 -> PostPaths \cup {"content"}
      [] OTHER -> {}

\* The members of each comment in a get-by-id response.
CommentMembers(op, status, ids) ==
    IF op = "get" /\ status = 200 /\ ids # {} THEN CommentPaths \cup {"content"} ELSE {}

Respond(op, status, id, ids, n, flagged) ==
    [op |-> op, status |-> status, id |-> id, ids |-> ids, n |-> n, flagged |-> flagged,
     retryAfter |-> 0, paths |-> PostMembers(op, status, ids),
     commentPaths |-> CommentMembers(op, status, ids)]

NoBody == [title |-> <<>>, content |-> <<>>, category |-> ""]

NoChain ==
    [stage |-> "none", ip |-> "", size |-> 0, raw |-> NoBody, body |-> NoBody,
     ran |-> <<>>, errors |-> <<>>, status |-> 0, error |-> "", details |-> <<>>]

NoVault == [env |-> "", sealed |-> <<>>, again |-> <<>>, opened |-> <<>>]

NoBuckets ==
    [stores |-> [scope \in {"global", "post", "comment", "like", "flag"} |-> <<>>],
     last |-> [scope |-> "", ip |-> "", ua |-> ""],
     total |-> 0]

\* The AnonForum object as its constructor leaves it, the pager's next
\* button disabled and no request sent.
NoUi ==
    [currentPage |-> 1, currentCategory |-> "all", currentSort |-> "createdAt",
     posts |-> <<>>, isLoading |-> FALSE, nextDisabled |-> TRUE, flights |-> <<>>,
     done |-> ""]

NoCalc == <<>>

AuxInit ==
    /\ chain = NoChain
    /\ logs = {}
    /\ vault = NoVault
    /\ anon = <<>>
    /\ buckets = NoBuckets
    /\ ui = NoUi
    /\ calc = NoCalc

Init ==
    /\ now = 0
    /\ posts = <<>>
    /\ comments = <<>>
    /\ nextPost = 1
    /\ nextComment = 1
    /\ reqs = [s \in Slots |-> Idle]
    /\ resp = NoResp
    /\ hits = [sc \in Scopes |-> [k \in Keys |-> 0]]
    /\ accepted = [k \in Keys |-> 0]
    /\ AuxInit

\* ----------------------------------------------------------------- clock
Tick ==
    /\ \/ /\ now % SevenDays < MaxMs
          /\ now' = now + 1
       \/ /\ now \div SevenDays < MaxWeeks
          /\ now' = now + SevenDays
    /\ UNCHANGED <<posts, comments, nextPost, nextComment, reqs, resp, limiter>>
    /\ UNCHANGED aux

\* ------------------------------------------------------------ read paths
\* The read filter without its expiry condition.
VisibleStored(doc, t) == ~doc.isDeleted /\ ~doc.isFlagged

\* { isDeleted: false, isFlagged: false, expiresAt: { $gt: new Date() } }
Visible(doc, t) == ~doc.isDeleted /\ ~doc.isFlagged /\ doc.expiresAt > t

\* A filter on expiresAt alone.
Unexpired(doc, t) == doc.expiresAt > t

\* { isDeleted: false, expiresAt: { $gt: now } }: the filter of the flag
\* route and of the statistics.
Live(doc, t) == ~doc.isDeleted /\ doc.expiresAt > t

\* GET /api/posts?category=cat : the ids Post.find(query) matches.
listPosts(cat, t) ==
    {p \in DOMAIN posts :
        /\ Visible(posts[p], t)
        /\ (cat # "all" => posts[p].category = cat)}

\* GET /api/posts/category/:category
postsByCategory(cat, t) ==
    {p \in DOMAIN posts : posts[p].category = cat /\ Visible(posts[p], t)}

\* A lookup by _id alone.
findStoredPost(p, t) == p \in DOMAIN posts

\* GET /api/posts/:id : the post found, or none.
findVisiblePost(p, t) == p \in DOMAIN posts /\ Visible(posts[p], t)

\* GET /api/posts/:id : the comments returned with the post.
commentsOf(p, t) ==
    {c \in DOMAIN comments : comments[c].postId = p /\ Visible(comments[c], t)}

\* GET /api/posts/stats/overview
statsTotalPosts(t) == Cardinality({p \in DOMAIN posts : Live(posts[p], t)})

statsTotalComments(t) == Cardinality({c \in DOMAIN comments : Live(comments[c], t)})

statsActiveCategories(t) ==
    Cardinality({posts[p].category : p \in {q \in DOMAIN posts : Live(posts[q], t)}})

GetPosts(cat) ==
    /\ resp' = Respond("list", 200, 0, listPosts(cat, now),
                       Cardinality(listPosts(cat, now)), FALSE)
    /\ UNCHANGED <<now, posts, comments, nextPost, nextComment, reqs, limiter>>
    /\ UNCHANGED aux

GetPostById(p) ==
    /\ resp' = IF findVisiblePost(p, now)
               THEN Respond("get", 200, p, commentsOf(p, now), 0, FALSE)
               ELSE Respond("get", 404, p, {}, 0, FALSE)
    /\ UNCHANGED <<now, posts, comments, nextPost, nextComment, reqs, limiter>>
    /\ UNCHANGED aux

GetPostsByCategory(cat) ==
    /\ resp' = Respond("category", 200, 0, postsByCategory(cat, now),
                       Cardinality(postsByCategory(cat, now)), FALSE)
    /\ UNCHANGED <<now, posts, comments, nextPost, nextComment, reqs, limiter>>
    /\ UNCHANGED aux

\* totalPosts is carried in n, totalComments in id.
GetStats ==
    /\ resp' = Respond("stats", 200, statsTotalComments(now), {},
                       statsTotalPosts(now), FALSE)
    /\ UNCHANGED <<now, posts, comments, nextPost, nextComment, reqs, limiter>>
    /\ UNCHANGED aux

\* ------------------------------------------------------- store primitives
\* The write of save() on a loaded Post: the pre('save') hook, then the
\* modified paths; a document that is gone is not written.
WritePost(p, doc, mod) ==
    LET d == PreSavePost(doc, now)
        m == mod \cup Modified(doc, d)
    IN  IF p \in DOMAIN posts
        THEN [posts EXCEPT ![p] = SaveDelta(@, d, m)]
        ELSE posts

WriteComment(c, doc, mod) ==
    IF c \in DOMAIN comments
    THEN [comments EXCEPT ![c] = SaveDelta(@, doc, mod)]
    ELSE comments

Remove(coll, id) == [x \in DOMAIN coll \ {id} |-> coll[x]]

\* ------------------------------------------- posts routes, step by step
Start(s, r) == reqs' = [reqs EXCEPT ![s] = r]

Finish(s) == reqs' = [reqs EXCEPT ![s] = Idle]

\* POST /api/posts : new Post({...}); createdAt takes its default here.
CreatePost(s, cat, cap) ==
    /\ reqs[s].kind = "idle"
    /\ nextPost + Cardinality({x \in Slots : reqs[x].kind = "createPost"}) <= cap
    /\ Start(s, [Idle EXCEPT !.kind = "createPost", !.pc = "save",
                             !.pdoc = NewPost(cat, now)])
    /\ UNCHANGED <<now, posts, comments, nextPost, nextComment, resp>>
    /\ UNCHANGED aux

\* POST /api/posts : await newPost.save(), the pre('save') hook included.
CreatePostSave(s) ==
    /\ reqs[s].kind = "createPost"
    /\ posts' = posts @@ (nextPost :> PreSavePost(reqs[s].pdoc, now))
    /\ nextPost' = nextPost + 1
    /\ resp' = Respond("create", 201, nextPost, {}, 0, FALSE)
    /\ Finish(s)
    /\ UNCHANGED <<now, comments, nextComment, limiter>>
    /\ UNCHANGED aux

\* POST /api/posts/:id/like : Post.findOne(...), then this.likes += 1.
LikeFind(s, p) ==
    /\ reqs[s].kind = "idle"
    /\ IF findVisiblePost(p, now)
       THEN /\ posts[p].likes < MaxLikes
            /\ Start(s, [Idle EXCEPT !.kind = "like", !.pc = "save", !.pid = p,
                                     !.pdoc = Keep(incrementLikes(posts[p]),
                                                   {"expiresAt", "likes"}),
                                     !.mod = {"likes"}])
            /\ UNCHANGED resp
       ELSE /\ resp' = Respond("like", 404, p, {}, 0, FALSE)
            /\ UNCHANGED reqs
    /\ UNCHANGED <<now, posts, comments, nextPost, nextComment>>
    /\ UNCHANGED aux

\* POST /api/posts/:id/like : await this.save(), then the response.
LikeSave(s) ==
    /\ reqs[s].kind = "like"
    /\ posts' = WritePost(reqs[s].pid, reqs[s].pdoc, reqs[s].mod)
    /\ resp' = Respond("like", 200, reqs[s].pid, {}, reqs[s].pdoc.likes, FALSE)
    /\ Finish(s)
    /\ UNCHANGED <<now, comments, nextPost, nextComment, limiter>>
    /\ UNCHANGED aux

\* POST /api/posts/:id/flag : the query has no isFlagged condition.
FlagFind(s, p, cap) ==
    /\ reqs[s].kind = "idle"
    /\ IF p \in DOMAIN posts /\ Live(posts[p], now)
       THEN /\ posts[p].flagCount < cap
            /\ Start(s, [Idle EXCEPT !.kind = "flag", !.pc = "save", !.pid = p,
                                     !.pdoc = Keep(flagPost(posts[p]),
                                                   {"expiresAt", "flagCount",
                                                    "isFlagged"}),
                                     !.mod = Modified(posts[p], flagPost(posts[p]))])
            /\ UNCHANGED resp
       ELSE /\ resp' = Respond("flag", 404, p, {}, 0, FALSE)
            /\ UNCHANGED reqs
    /\ UNCHANGED <<now, posts, comments, nextPost, nextComment>>
    /\ UNCHANGED aux

\* POST /api/posts/:id/flag : await this.save(), then { flagged: post.isFlagged }.
FlagSave(s) ==
    /\ reqs[s].kind = "flag"
    /\ posts' = WritePost(reqs[s].pid, reqs[s].pdoc, reqs[s].mod)
    /\ resp' = Respond("flag", 200, reqs[s].pid, {}, 0, reqs[s].pdoc.isFlagged)
    /\ Finish(s)
    /\ UNCHANGED <<now, comments, nextPost, nextComment, limiter>>
    /\ UNCHANGED aux

\* post.softDelete() on a loaded post.
SoftDeletePost(s, p) ==
    /\ reqs[s].kind = "idle"
    /\ p \in DOMAIN posts
    /\ ~posts[p].isDeleted
    /\ Start(s, [Idle EXCEPT !.kind = "postMethod", !.pc = "save", !.pid = p,
                             !.pdoc = Keep(softDelete(posts[p]),
                                           {"expiresAt", "isDeleted"}),
                             !.mod = {"isDeleted"}])
    /\ UNCHANGED <<now, posts, comments, nextPost, nextComment, resp, limiter>>
    /\ UNCHANGED aux

\* this.save() of softDelete, incrementComments and decrementComments.
SavePost(s) ==
    /\ reqs[s].kind = "postMethod"
    /\ posts' = WritePost(reqs[s].pid, reqs[s].pdoc, reqs[s].mod)
    /\ Finish(s)
    /\ UNCHANGED <<now, comments, nextPost, nextComment, resp, limiter>>
    /\ UNCHANGED aux

\* The TTL index { expiresAt: 1 }, expireAfterSeconds: 0, of both schemas.
ExpirePost(p) ==
    /\ p \in DOMAIN posts
    /\ posts[p].expiresAt # NoDate
    /\ posts[p].expiresAt <= now
    /\ posts' = Remove(posts, p)
    /\ UNCHANGED <<now, comments, nextPost, nextComment, reqs, resp, limiter>>
    /\ UNCHANGED aux

ExpireComment(c) ==
    /\ c \in DOMAIN comments
    /\ comments[c].expiresAt # NoDate
    /\ comments[c].expiresAt <= now
    /\ comments' = Remove(comments, c)
    /\ UNCHANGED <<now, posts, nextPost, nextComment, reqs, resp, limiter>>
    /\ UNCHANGED aux

\* --------------------------------------------- comments, step by step
\* new Comment({ postId: p, ... }): createdAt defaults to Date.now(), and
\* expiresAt is left to the pre('save') hook.
CreateComment(s, p, cap) ==
    /\ reqs[s].kind = "idle"
    /\ nextComment
         + Cardinality({x \in Slots : reqs[x].kind = "createComment"
                                        /\ reqs[x].pc = "presave"})
         <= cap
    /\ Start(s, [Idle EXCEPT !.kind = "createComment", !.pc = "presave",
                             !.pid = p, !.cdoc = NewComment(p, now)])
    /\ UNCHANGED <<now, posts, comments, nextPost, nextComment, resp>>
    /\ UNCHANGED aux

\* comment.flag() on a loaded comment.
FlagComment(s, c, cap) ==
    /\ reqs[s].kind = "idle"
    /\ c \in DOMAIN comments
    /\ comments[c].flagCount < cap
    /\ Start(s, [Idle EXCEPT !.kind = "commentMethod", !.pc = "presave",
                             !.cid = c, !.pid = comments[c].postId,
                             !.cdoc = flagComment(comments[c]),
                             !.mod = Modified(comments[c],
                                              flagComment(comments[c]))])
    /\ UNCHANGED <<now, posts, comments, nextPost, nextComment, resp>>
    /\ UNCHANGED aux

\* comment.softDelete() on a loaded comment.
SoftDeleteComment(s, c) ==
    /\ reqs[s].kind = "idle"
    /\ c \in DOMAIN comments
    /\ ~comments[c].isDeleted
    /\ Start(s, [Idle EXCEPT !.kind = "commentMethod", !.pc = "presave",
                             !.cid = c, !.pid = comments[c].postId,
                             !.cdoc = softDelete(comments[c]),
                             !.mod = {"isDeleted"}])
    /\ UNCHANGED <<now, posts, comments, nextPost, nextComment, resp, limiter>>
    /\ UNCHANGED aux

\* A pre('save') hook that gives the comment seven days of its own.
PreSaveCommentOwnClock(doc) ==
    IF doc.expiresAt = NoDate THEN [doc EXCEPT !.expiresAt = now + SevenDays] ELSE doc

\* commentSchema.pre('save'): expiresAt is copied from the parent post when
\* it is not set and the post is found.
PreSaveComment(doc) ==
    IF doc.expiresAt = NoDate /\ doc.postId # 0 /\ doc.postId \in DOMAIN posts
    THEN [doc EXCEPT !.expiresAt = posts[doc.postId].expiresAt]
    ELSE doc

\* expiresAt: { type: Date, required: true }
ValidComment(doc) == doc.expiresAt # NoDate

\* comment.save(): the pre('save') hook, the validators, then the write; a
\* save that fails validation writes nothing and runs no post('save') hook.
CommentSave(s) ==
    /\ reqs[s].kind \in {"createComment", "commentMethod"}
    /\ reqs[s].pc = "presave"
    /\ LET d == PreSaveComment(reqs[s].cdoc)
           m == reqs[s].mod \cup Modified(reqs[s].cdoc, d)
       IN  IF ~ValidComment(d)
           THEN /\ Finish(s)
                /\ UNCHANGED <<comments, nextComment>>
           ELSE IF reqs[s].kind = "createComment"
           THEN /\ comments' = comments @@ (nextComment :> d)
                /\ nextComment' = nextComment + 1
                /\ reqs' = [reqs EXCEPT ![s].pc = "postsave", ![s].cdoc = d,
                                        ![s].cid = nextComment]
           ELSE /\ comments' = WriteComment(reqs[s].cid, d, m)
                /\ nextComment' = nextComment
                /\ reqs' = [reqs EXCEPT ![s].pc = "postsave", ![s].cdoc = d]
    /\ UNCHANGED <<now, posts, nextPost, resp, limiter>>
    /\ UNCHANGED aux

\* commentSchema.post('save'): runs after every save of a comment.
CommentPostSave(s) ==
    /\ reqs[s].kind \in {"createComment", "commentMethod"}
    /\ reqs[s].pc = "postsave"
    /\ LET p == reqs[s].cdoc.postId
       IN  IF p \in DOMAIN posts /\ ~reqs[s].cdoc.isDeleted
           THEN Start(s, [Idle EXCEPT !.kind = "postMethod", !.pc = "save", !.pid = p,
                                      !.pdoc = Keep(incrementComments(posts[p]),
                                                    {"expiresAt", "commentCount"}),
                                      !.mod = {"commentCount"}])
           ELSE Finish(s)
    /\ UNCHANGED <<now, posts, comments, nextPost, nextComment, resp, limiter>>
    /\ UNCHANGED aux

\* comment.remove() on a loaded comment.
RemoveComment(s, c) ==
    /\ reqs[s].kind = "idle"
    /\ c \in DOMAIN comments
    /\ comments' = Remove(comments, c)
    /\ Start(s, [Idle EXCEPT !.kind = "commentRemove", !.pc = "postremove",
                             !.cid = c, !.pid = comments[c].postId,
                             !.cdoc = comments[c]])
    /\ UNCHANGED <<now, posts, nextPost, nextComment, resp, limiter>>
    /\ UNCHANGED aux

\* commentSchema.post('remove')
CommentPostRemove(s) ==
    /\ reqs[s].kind = "commentRemove"
    /\ LET p == reqs[s].cdoc.postId
       IN  IF p \in DOMAIN posts
           THEN Start(s, [Idle EXCEPT !.kind = "postMethod", !.pc = "save", !.pid = p,
                                      !.pdoc = Keep(decrementComments(posts[p]),
                                                    {"expiresAt", "commentCount"}),
                                      !.mod = Modified(posts[p],
                                                       decrementComments(posts[p]))])
           ELSE Finish(s)
    /\ UNCHANGED <<now, posts, comments, nextPost, nextComment, resp, limiter>>
    /\ UNCHANGED aux

\* cleanupService.cleanupExpiredPosts(): the hourly sweep removes what has
\* expired.
Expired(doc, t) == doc.expiresAt # NoDate /\ doc.expiresAt <= t

cleanupExpiredPosts ==
    /\ \E p \in DOMAIN posts : Expired(posts[p], now)
    /\ posts' = [p \in {q \in DOMAIN posts : ~Expired(posts[q], now)} |-> posts[p]]
    /\ comments' = [c \in {x \in DOMAIN comments : ~Expired(comments[x], now)}
                      |-> comments[c]]
    /\ UNCHANGED <<now, nextPost, nextComment, reqs, resp, limiter>>
    /\ UNCHANGED aux

\* ---------------------------------------------------------- rate limiters
Max(scope) ==
    CASE scope = "post" -> PostMax
      [] scope = "like" -> LikeMax
      [] scope = "flag" -> FlagMax

WindowMs(scope) ==
    CASE scope = "post" -> PostWindowMs
      [] scope = "like" -> LikeWindowMs
      [] scope = "flag" -> FlagWindowMs

\* The hint left in milliseconds.
RetryAfterMs(scope) == WindowMs(scope)

\* Math.ceil(windowMs / 1000)
RetryAfter(scope) == (WindowMs(scope) + 999) \div 1000

Count(scope, k) == hits' = [hits EXCEPT ![scope][k] = @ + 1]

\* A limiter that counts and lets every request pass.
AdmitAll(scope, k) == Count(scope, k)

\* rateLimit({windowMs, max}): the request is counted, and passed on while
\* the count does not exceed max.
Admit(scope, k) ==
    /\ hits[scope][k] < Max(scope)
    /\ Count(scope, k)

\* createIPRateLimiter's handler: 429 with retryAfter.
Reject(scope, k, id) ==
    /\ hits[scope][k] >= Max(scope)
    /\ hits[scope][k] < Max(scope) + MaxOver
    /\ Count(scope, k)
    /\ resp' = [Respond(scope, 429, id, {}, 0, FALSE) EXCEPT
                    !.retryAfter = RetryAfter(scope)]
    /\ UNCHANGED <<now, posts, comments, nextPost, nextComment, reqs, accepted>>
    /\ UNCHANGED aux

\* The limiter's store forgets its counts when the window has passed.
ResetWindow(scope) ==
    /\ \E k \in Keys : hits[scope][k] > 0 \/ (scope = "post" /\ accepted[k] > 0)
    /\ hits' = [hits EXCEPT ![scope] = [k \in Keys |-> 0]]
    /\ accepted' = IF scope = "post" THEN [k \in Keys |-> 0] ELSE accepted
    /\ UNCHANGED <<now, posts, comments, nextPost, nextComment, reqs, resp>>
    /\ UNCHANGED aux

\* router.post('/:id/like', [createIPRateLimiter(60 * 1000, 10, ...)], handler)
LikeRoute(s, k, p) ==
    \/ Admit("like", k) /\ LikeFind(s, p) /\ UNCHANGED accepted
    \/ Reject("like", k, p)

\* router.post('/:id/flag', [createIPRateLimiter(5 * 60 * 1000, 3, ...)], handler)
FlagRoute(s, k, p, cap) ==
    \/ Admit("flag", k) /\ FlagFind(s, p, cap) /\ UNCHANGED accepted
    \/ Reject("flag", k, p)

\* The routes of the posts router, mounted at /api/posts before postLimiter.
postsRoutes ==
    {<<"GET", "/">>, <<"GET", "/:id">>, <<"POST", "/">>, <<"POST", "/:id/like">>,
     <<"POST", "/:id/flag">>, <<"GET", "/category/:category">>,
     <<"GET", "/stats/overview">>}

\* app.use('/api/posts', postsRoutes), then app.use('/api/posts', postLimiter
\* for POST): a request the router answers never reaches what is mounted
\* after it.
ReachesPostLimiter(method, path) ==
    method = "POST" /\ <<method, path>> \notin postsRoutes

\* A POST under /api/posts from origin k.
PostToPosts(s, k, path, cat, cap) ==
    IF ReachesPostLimiter("POST", path)
    THEN \/ /\ Admit("post", k)
            /\ resp' = Respond("post", 404, 0, {}, 0, FALSE)
            /\ UNCHANGED <<now, posts, comments, nextPost, nextComment, reqs, accepted>>
            /\ UNCHANGED aux
         \/ /\ hits["post"][k] >= PostMax
            /\ hits["post"][k] < PostMax + MaxOver
            /\ Count("post", k)
            /\ resp' = Respond("post", 429, 0, {}, 0, FALSE)
            /\ UNCHANGED <<now, posts, comments, nextPost, nextComment, reqs, accepted>>
            /\ UNCHANGED aux
    ELSE /\ path = "/"
         /\ CreatePost(s, cat, cap)
         /\ accepted' = [accepted EXCEPT ![k] = @ + 1]
         /\ UNCHANGED hits

\* ------------------------------------------------------- specifications
\* One request at a time, with the clock and expiry.
One == {1}

Next ==
    \/ Tick
    \/ \E s \in One : CreatePost(s, "general", MaxPosts) /\ UNCHANGED limiter
    \/ \E s \in One : CreatePostSave(s)
    \/ \E s \in One, p \in DOMAIN posts : SoftDeletePost(s, p)
    \/ \E s \in One, p \in 1..MaxPosts :
          CreateComment(s, p, MaxComments) /\ UNCHANGED limiter
    \/ \E s \in One : CommentSave(s)
    \/ \E s \in One : CommentPostSave(s)
    \/ \E s \in One : SavePost(s)
    \/ \E p \in DOMAIN posts : ExpirePost(p)
    \/ \E c \in DOMAIN comments : ExpireComment(c)
    \/ cleanupExpiredPosts
    \/ \E p \in 1..MaxPosts : GetPostById(p)

Spec == Init /\ [][Next]_vars

\* A forum that already holds one post.
InitPost ==
    /\ now = 0
    /\ posts = (1 :> PreSavePost(NewPost("general", 0), 0))
    /\ comments = <<>>
    /\ nextPost = 2
    /\ nextComment = 1
    /\ reqs = [s \in Slots |-> Idle]
    /\ resp = NoResp
    /\ hits = [sc \in Scopes |-> [k \in Keys |-> 0]]
    /\ accepted = [k \in Keys |-> 0]
    /\ AuxInit

\* A forum that already holds one post with one comment.
InitThread ==
    /\ now = 0
    /\ posts = (1 :> [PreSavePost(NewPost("general", 0), 0)
                        EXCEPT !.commentCount = 1])
    /\ comments = (1 :> [NewComment(1, 0) EXCEPT !.expiresAt = SevenDays])
    /\ nextPost = 2
    /\ nextComment = 2
    /\ reqs = [s \in Slots |-> Idle]
    /\ resp = NoResp
    /\ hits = [sc \in Scopes |-> [k \in Keys |-> 0]]
    /\ accepted = [k \in Keys |-> 0]
    /\ AuxInit

\* Moderation and the read paths, one request at a time, the clock at rest.
NextModeration ==
    \/ \E s \in One, p \in DOMAIN posts :
          FlagFind(s, p, MaxFlagCalls) /\ UNCHANGED limiter
    \/ \E s \in One : FlagSave(s)
    \/ \E s \in One, p \in DOMAIN posts : SoftDeletePost(s, p)
    \/ \E s \in One, p \in DOMAIN posts :
          CreateComment(s, p, MaxComments) /\ UNCHANGED limiter
    \/ \E s \in One : CommentSave(s)
    \/ \E s \in One : CommentPostSave(s)
    \/ \E s \in One : SavePost(s)
    \/ \E s \in One, c \in DOMAIN comments :
          FlagComment(s, c, MaxCommentFlags) /\ UNCHANGED limiter
    \/ \E s \in One, c \in DOMAIN comments : SoftDeleteComment(s, c)
    \/ \E s \in One, c \in DOMAIN comments : RemoveComment(s, c)
    \/ \E s \in One : CommentPostRemove(s)
    \/ \E cat \in Categories \cup {"all"} : GetPosts(cat)
    \/ \E cat \in Categories : GetPostsByCategory(cat)
    \/ \E p \in DOMAIN posts : GetPostById(p)
    \/ GetStats

SpecModeration == InitPost /\ [][NextModeration]_vars

\* Requests in flight together on one thread, the clock at rest.
NextRace ==
    \/ \E s \in Slots, p \in DOMAIN posts : LikeFind(s, p) /\ UNCHANGED limiter
    \/ \E s \in Slots : LikeSave(s)
    \/ \E s \in Slots, p \in DOMAIN posts :
          FlagFind(s, p, PostFlagThreshold + MaxOver) /\ UNCHANGED limiter
    \/ \E s \in Slots : FlagSave(s)
    \/ \E s \in Slots, p \in DOMAIN posts : SoftDeletePost(s, p)
    \/ \E s \in Slots, c \in DOMAIN comments :
          FlagComment(s, c, CommentFlagThreshold) /\ UNCHANGED limiter
    \/ \E s \in Slots, c \in DOMAIN comments : SoftDeleteComment(s, c)
    \/ \E s \in Slots : CommentSave(s)
    \/ \E s \in Slots : CommentPostSave(s)
    \/ \E s \in Slots : SavePost(s)

SpecRace == InitThread /\ [][NextRace]_vars

\* Comments created together on one post.
NextBurst ==
    \/ \E s \in Slots, cat \in Categories :
          CreatePost(s, cat, MaxPosts) /\ UNCHANGED limiter
    \/ \E s \in Slots : CreatePostSave(s)
    \/ \E s \in Slots, p \in 1..MaxPosts :
          CreateComment(s, p, MaxInFlight) /\ UNCHANGED limiter
    \/ \E s \in Slots : CommentSave(s)
    \/ \E s \in Slots : CommentPostSave(s)
    \/ \E s \in Slots : SavePost(s)
    \/ \E p \in DOMAIN posts : GetPostById(p)

SpecBurst == Init /\ [][NextBurst]_vars

\* The like and flag routes behind their limiters.
NextLikeFlag ==
    \/ \E s \in One, k \in Keys, p \in PostIds : LikeRoute(s, k, p)
    \/ \E s \in One : LikeSave(s)
    \/ \E s \in One, k \in Keys, p \in DOMAIN posts : FlagRoute(s, k, p, FlagMax)
    \/ \E s \in One : FlagSave(s)
    \/ ResetWindow("like")
    \/ ResetWindow("flag")

SpecLikeFlag == InitPost /\ [][NextLikeFlag]_vars

\* One window of the flag limiter in which one key sends every flag, its
\* requests in flight together; likes come from every key.
NextOneKey ==
    \/ \E s \in Slots, p \in DOMAIN posts :
          FlagRoute(s, "a", p, PostFlagThreshold)
    \/ \E s \in Slots : FlagSave(s)
    \/ \E s \in Slots, k \in Keys, p \in DOMAIN posts : LikeRoute(s, k, p)
    \/ \E s \in Slots : LikeSave(s)

SpecOneKey == InitPost /\ [][NextOneKey]_vars

\* POST requests under /api/posts.
NextPosting ==
    \/ \E s \in One, k \in Keys, path \in {"/", "/unmatched"} :
          PostToPosts(s, k, path, "general", PostMax + MaxOver)
    \/ \E s \in One : CreatePostSave(s)
    \/ ResetWindow("post")

SpecPosting == Init /\ [][NextPosting]_vars

\* ------------------------------------------------------------ anonymous ids
prefixes ==
    <<"Anon", "Ghost", "Shadow", "Phantom", "Mystery", "Unknown", "Cipher", "Void">>

\* Math.floor(r * n) for r = k / RandomSteps
FloorOfRandomTimes(k, n) == (k * n) \div RandomSteps

\* generateAnonId(): `${prefix}${number}` from two draws of Math.random().
generateAnonId(k1, k2) ==
    [prefix |-> prefixes[FloorOfRandomTimes(k1, Len(prefixes)) + 1],
     number |-> FloorOfRandomTimes(k2, 9999) + 1000]

\* Post.generateAnonId() or Comment.generateAnonId()
GenerateAnonId(model) ==
    /\ \E k1, k2 \in 0..(RandomSteps - 1) :
          anon' = [model |-> model, label |-> generateAnonId(k1, k2)]
    /\ UNCHANGED <<now, posts, comments, nextPost, nextComment, reqs, resp, limiter,
                   chain, logs, vault, rest>>

NextAnonId == \E model \in {"Post", "Comment"} : GenerateAnonId(model)

SpecAnonId == Init /\ [][NextAnonId]_vars

\* ------------------------------------------------- request checks, POST /api/posts
\* A text is a sequence of pieces; each piece stands for the characters below.
\*   "w"       helloworld              "Hi"    Hi
\*   " "       one space               "#"     #
\*   "url"     http://a.com            "spam"  spam
\*   "<s>"     <script>x</script>      "js:"   javascript:
\*   "onload=" onload=                 "zs"    zzzzzzzzzzz
\*   "CAPS"    twenty capital letters
\*   "java", "script:", "vb", "da", "ta:"   the parts of javascript:, vbscript:, data:
\*   "<", ">"  an angle bracket that opens no tag    "&lt;", "&gt;"  its entity
\*   "a"       a
Width(piece) ==
    CASE piece = "w" -> 10
      [] piece = "Hi" -> 2
      [] piece = " " -> 1
      [] piece = "#" -> 1
      [] piece = "url" -> 12
      [] piece = "spam" -> 4
      [] piece = "<s>" -> 18
      [] piece = "js:" -> 11
      [] piece = "onload=" -> 7
      [] piece = "zs" -> 11
      [] piece = "CAPS" -> 20
      [] piece = "java" -> 4
      [] piece = "script:" -> 7
      [] piece = "vb" -> 2
      [] piece = "da" -> 2
      [] piece = "ta:" -> 3
      [] piece \in {"<", ">", "a"} -> 1
      [] piece \in {"&lt;", "&gt;"} -> 4

RECURSIVE Length(_)
Length(text) == IF text = <<>> THEN 0 ELSE Width(Head(text)) + Length(Tail(text))

\* String.prototype.trim
RECURSIVE TrimStart(_)
TrimStart(text) ==
    IF text # <<>> /\ Head(text) = " " THEN TrimStart(Tail(text)) ELSE text

RECURSIVE TrimEnd(_)
TrimEnd(text) ==
    IF text # <<>> /\ text[Len(text)] = " "
    THEN TrimEnd(SubSeq(text, 1, Len(text) - 1))
    ELSE text

Trim(text) == TrimEnd(TrimStart(text))

\* String.prototype.substring(0, n): the pieces that fit whole in n characters.
RECURSIVE Substring(_, _)
Substring(text, n) ==
    IF text = <<>> \/ Width(Head(text)) > n
    THEN <<>>
    ELSE <<Head(text)>> \o Substring(Tail(text), n - Width(Head(text)))

\* purify.sanitize(value, {ALLOWED_TAGS: [], ALLOWED_ATTR: []}): a script
\* element goes with its content, a lone angle bracket comes back as its
\* entity.
purify(text) ==
    LET kept == SelectSeq(text, LAMBDA piece : piece # "<s>")
    IN  [i \in 1..Len(kept) |->
            CASE kept[i] = "<" -> "&lt;"
              [] kept[i] = ">" -> "&gt;"
              [] OTHER -> kept[i]]

StartsWith(text, pattern) ==
    Len(text) >= Len(pattern) /\ SubSeq(text, 1, Len(pattern)) = pattern

\* String.prototype.replace(/.../g, ''): one pass from the left; what is
\* left of a match is not looked at again.
RECURSIVE ReplaceAll(_, _)
ReplaceAll(text, patterns) ==
    IF text = <<>> THEN <<>>
    ELSE IF \E pattern \in patterns : StartsWith(text, pattern)
    THEN LET pattern == CHOOSE q \in patterns : StartsWith(text, q)
         IN  ReplaceAll(SubSeq(text, Len(pattern) + 1, Len(text)), patterns)
    ELSE <<Head(text)>> \o ReplaceAll(Tail(text), patterns)

\* The spellings, in pieces, of what the four replace calls look for.
AngleBrackets == {<<"<">>, <<">">>}
JavascriptProtocol == {<<"js:">>, <<"java", "script:">>}
DataProtocol == {<<"da", "ta:">>}
VbscriptProtocol == {<<"vb", "script:">>}

Contains(text, patterns) ==
    \E i \in 1..Len(text), pattern \in patterns :
       StartsWith(SubSeq(text, i, Len(text)), pattern)

\* sanitizeObject on a string: purify.sanitize, the four replace calls in
\* their order, trim.
sanitizeString(text) ==
    Trim(ReplaceAll(ReplaceAll(ReplaceAll(ReplaceAll(purify(text),
            AngleBrackets), JavascriptProtocol), DataProtocol), VbscriptProtocol))

sanitizeObject(body) ==
    [title |-> sanitizeString(body.title),
     content |-> sanitizeString(body.content),
     category |-> body.category]

\* suspiciousActivityDetector: the patterns tested on every string of the body.
checkSuspicious(body) ==
    \E f \in {"title", "content"} :
       \E i \in 1..Len(body[f]) : body[f][i] \in {"<s>", "js:", "onload="}

\* body(field).isLength({min, max})
isLength(text, min, max) == Length(text) >= min /\ Length(text) <= max

\* The title's character class: letters, digits, white space and . , ! ? ( ) -
TitleMatches(text) ==
    /\ text # <<>>
    /\ \A i \in 1..Len(text) : text[i] \in {"w", "Hi", " ", "spam", "zs", "CAPS"}

\* /(https?:\/\/[^\s]+){k,}/ from position i: a group is a URL and whatever
\* follows it up to the next group, and nothing in a group is white space.
RECURSIVE UrlGroups(_, _, _)
UrlGroups(text, i, k) ==
    /\ i <= Len(text)
    /\ text[i] = "url"
    /\ \/ k = 1
       \/ \E j \in (i + 1)..Len(text) :
             /\ \A m \in (i + 1)..(j - 1) : text[m] # " "
             /\ UrlGroups(text, j, k - 1)

MultipleUrls(text, k) == \E i \in 1..Len(text) : UrlGroups(text, i, k)

\* /(.)\1{10,}/
RepeatedCharacters(text) == \E i \in 1..Len(text) : text[i] = "zs"

\* /[A-Z]{n,}/
AllCaps(text, n) == \E i \in 1..Len(text) : text[i] = "CAPS" /\ Width("CAPS") >= n

\* /(\b\w+\b\s*){1,3}\1{5,}/ : a word with the white space after it, six
\* times in a row.
RepeatedWords(text) ==
    \E i \in 1..Len(text) :
       /\ i + 11 <= Len(text)
       /\ text[i] \in {"w", "Hi", "spam", "zs", "CAPS"}
       /\ \A m \in 0..5 : text[i + 2 * m] = text[i] /\ text[i + 2 * m + 1] = " "

\* postValidationRules, the custom validator of content.
spamPatterns(text) ==
    \/ RepeatedCharacters(text)
    \/ MultipleUrls(text, 3)
    \/ AllCaps(text, 20)
    \/ RepeatedWords(text)

ValidationError(field, text, msg) == <<[param |-> field, msg |-> msg, value |-> text]>>

\* Validation that stops at the first failing validator.
postValidationRulesFirst(body) ==
    IF ~isLength(body.title, 3, 200)
    THEN ValidationError("title", body.title, "Title must be between 3 and 200 characters")
    ELSE IF ~TitleMatches(body.title)
    THEN ValidationError("title", body.title, "Title contains invalid characters")
    ELSE IF ~isLength(body.content, 10, 5000)
    THEN ValidationError("content", body.content,
                         "Content must be between 10 and 5000 characters")
    ELSE IF spamPatterns(body.content)
    THEN ValidationError("content", body.content, "Content appears to be spam")
    ELSE IF body.category \notin Categories
    THEN ValidationError("category", <<body.category>>, "Invalid category")
    ELSE <<>>

\* postValidationRules run on the body: every validator of every field runs,
\* and each failing one adds its error.
postValidationRules(body) ==
    (IF isLength(body.title, 3, 200) THEN <<>>
     ELSE ValidationError("title", body.title,
                          "Title must be between 3 and 200 characters"))
    \o (IF TitleMatches(body.title) THEN <<>>
        ELSE ValidationError("title", body.title, "Title contains invalid characters"))
    \o (IF isLength(body.content, 10, 5000) THEN <<>>
        ELSE ValidationError("content", body.content,
                             "Content must be between 10 and 5000 characters"))
    \o (IF ~spamPatterns(body.content) THEN <<>>
        ELSE ValidationError("content", body.content, "Content appears to be spam"))
    \o (IF body.category \in Categories THEN <<>>
        ELSE ValidationError("category", <<body.category>>, "Invalid category"))

\* contentFilter's checkContent: the word patterns spam, scam, fake, ...
checkContent(text) == ~(\E i \in 1..Len(text) : text[i] = "spam")

\* What a client may send.
Address == "203.0.113.7"
ContentTypes == {"json", "text"}
ContentLengths == {1, 20, 60}
Titles == {<<"w">>, <<"Hi">>, <<"#">>}
UrlsApart(n) == [i \in 1..(2 * n - 1) |-> IF i % 2 = 1 THEN "url" ELSE " "]
UrlsTogether(n) == [i \in 1..n |-> "url"]
Contents ==
    {<<"w", " ", "w">>, <<"Hi">>, <<"w", "<s>">>, <<"w", " ", "js:">>,
     <<"w", " ", "onload=">>, <<"w", " ", "spam">>, <<"w", " ", "zs">>,
     <<"w", " ", "CAPS">>,
     <<"w", " ", "w", " ", "w", " ", "w", " ", "w", " ", "w", " ">>}
    \cup {UrlsApart(n) : n \in 2..MaxUrls}
    \cup {UrlsTogether(n) : n \in 2..MaxUrls}
RequestCategories == {"general", "bogus"}
Bodies == [title : Titles, content : Contents, category : RequestCategories]

Ran(name) == Append(chain.ran, name)

ChainFrame == UNCHANGED <<now, comments, nextComment, reqs, limiter, vault, anon, rest>>

Rejected(name, status, error, details) ==
    [chain EXCEPT !.stage = "done", !.ran = Ran(name), !.status = status,
                  !.error = error, !.details = details]

\* A POST /api/posts request reaches the server.
Arrive(type, size, body) ==
    /\ chain.stage = "none"
    /\ nextPost <= MaxPosts
    /\ chain' = [chain EXCEPT !.stage = type, !.ip = Address, !.size = size,
                               !.raw = body, !.body = body]
    /\ UNCHANGED <<posts, nextPost, resp, logs>>
    /\ ChainFrame

\* express.json({limit: '10kb'}): a larger body is an error that the error
\* handler logs and answers with the error's status.
JsonBodyParser ==
    /\ chain.stage = "json"
    /\ IF chain.size > BodyLimitKb
       THEN /\ chain' = Rejected("express.json", 413, "request entity too large", <<>>)
            /\ logs' = logs \cup {[event |-> "Unhandled error", ip |-> chain.ip,
                                    values |-> {}, excerpts |-> {}]}
       ELSE /\ chain' = [chain EXCEPT !.stage = "sanitizeInput", !.ran = Ran("express.json")]
            /\ UNCHANGED logs
    /\ UNCHANGED <<posts, nextPost, resp>>
    /\ ChainFrame

\* A body that is not JSON is left unparsed: req.body is empty.
SkipBodyParser ==
    /\ chain.stage = "text"
    /\ chain' = [chain EXCEPT !.stage = "sanitizeInput", !.body = NoBody,
                               !.ran = Ran("express.json")]
    /\ UNCHANGED <<posts, nextPost, resp, logs>>
    /\ ChainFrame

\* app.use(securityMiddleware.sanitizeInput)
SanitizeInput ==
    /\ chain.stage = "sanitizeInput"
    /\ chain' = [chain EXCEPT !.stage = "requestSizeLimiter",
                               !.body = sanitizeObject(chain.body),
                               !.ran = Ran("sanitizeInput")]
    /\ UNCHANGED <<posts, nextPost, resp, logs>>
    /\ ChainFrame

\* security.requestSizeLimiter
RequestSizeLimiter ==
    /\ chain.stage = "requestSizeLimiter"
    /\ IF chain.size > MaxSizeKb
       THEN /\ chain' = Rejected("requestSizeLimiter", 413, "Request too large", <<>>)
            /\ logs' = logs \cup {[event |-> "Request too large", ip |-> chain.ip,
                                    values |-> {}, excerpts |-> {}]}
       ELSE /\ chain' = [chain EXCEPT !.stage = "suspiciousActivityDetector",
                                       !.ran = Ran("requestSizeLimiter")]
            /\ UNCHANGED logs
    /\ UNCHANGED <<posts, nextPost, resp>>
    /\ ChainFrame

\* security.suspiciousActivityDetector
SuspiciousActivityDetector ==
    /\ chain.stage = "suspiciousActivityDetector"
    /\ IF checkSuspicious(chain.body)
       THEN /\ chain' = Rejected("suspiciousActivityDetector", 403,
                                  "Suspicious activity detected", <<>>)
            /\ logs' = logs \cup
                  {[event |-> "Suspicious activity detected", ip |-> chain.ip,
                    values |-> {},
                    excerpts |-> {Substring(chain.body.title \o chain.body.content, 200)}]}
       ELSE /\ chain' = [chain EXCEPT !.stage = "postValidationRules",
                                       !.ran = Ran("suspiciousActivityDetector")]
            /\ UNCHANGED logs
    /\ UNCHANGED <<posts, nextPost, resp>>
    /\ ChainFrame

\* ...security.postValidationRules()
PostValidationRules ==
    /\ chain.stage = "postValidationRules"
    /\ chain' = [chain EXCEPT !.stage = "validateRequest",
                               !.errors = postValidationRules(chain.body),
                               !.ran = Ran("postValidationRules")]
    /\ UNCHANGED <<posts, nextPost, resp, logs>>
    /\ ChainFrame

\* security.validateRequest
ValidateRequest ==
    /\ chain.stage = "validateRequest"
    /\ IF chain.errors # <<>>
       THEN /\ chain' = Rejected("validateRequest", 400, "Validation failed",
                                  [i \in 1..Len(chain.errors) |->
                                      [field |-> chain.errors[i].param,
                                       message |-> chain.errors[i].msg]])
            /\ logs' = logs \cup
                  {[event |-> "Validation failed", ip |-> chain.ip,
                    values |-> {chain.errors[i].value : i \in 1..Len(chain.errors)},
                    excerpts |-> {}]}
       ELSE /\ chain' = [chain EXCEPT !.stage = "contentFilter",
                                       !.ran = Ran("validateRequest")]
            /\ UNCHANGED logs
    /\ UNCHANGED <<posts, nextPost, resp>>
    /\ ChainFrame

\* security.contentFilter
ContentFilter ==
    /\ chain.stage = "contentFilter"
    /\ IF ~checkContent(chain.body.title) \/ ~checkContent(chain.body.content)
       THEN /\ chain' = Rejected("contentFilter", 400,
                                  "Content violates community guidelines", <<>>)
            /\ logs' = logs \cup
                  {[event |-> "Inappropriate content detected", ip |-> chain.ip,
                    values |-> {},
                    excerpts |-> {Substring(chain.body.title, 50),
                                  Substring(chain.body.content, 100)}]}
       ELSE /\ chain' = [chain EXCEPT !.stage = "handler", !.ran = Ran("contentFilter")]
            /\ UNCHANGED logs
    /\ UNCHANGED <<posts, nextPost, resp>>
    /\ ChainFrame

\* The route handler: new Post({...}), await newPost.save(), 201.
Handler ==
    /\ chain.stage = "handler"
    /\ posts' = posts @@ (nextPost :> PreSavePost(NewPost(chain.body.category, now), now))
    /\ nextPost' = nextPost + 1
    /\ resp' = Respond("create", 201, nextPost, {}, 0, FALSE)
    /\ chain' = [chain EXCEPT !.stage = "done", !.ran = Ran("handler"), !.status = 201]
    /\ UNCHANGED logs
    /\ ChainFrame

NextChain ==
    \/ \E type \in ContentTypes, size \in ContentLengths :
          \E body \in IF type = "json" THEN Bodies ELSE {NoBody} : Arrive(type, size, body)
    \/ JsonBodyParser
    \/ SkipBodyParser
    \/ SanitizeInput
    \/ RequestSizeLimiter
    \/ SuspiciousActivityDetector
    \/ PostValidationRules
    \/ ValidateRequest
    \/ ContentFilter
    \/ Handler

SpecChain == Init /\ [][NextChain]_vars

\* ------------------------------------------------------ sanitizeInput on strings
Pieces == {"java", "script:", "vb", "da", "ta:", "<", "a", " "}
Texts == UNION {[1..n -> Pieces] : n \in 0..MaxPieces}

\* sanitizeInput on a request with one string, and on what it left.
Sanitize(text) ==
    /\ calc = NoCalc
    /\ calc' = [call |-> "sanitizeInput", input |-> text,
                once |-> sanitizeString(text),
                twice |-> sanitizeString(sanitizeString(text))]
    /\ UNCHANGED <<now, posts, comments, nextPost, nextComment, reqs, resp, limiter,
                   chain, logs, vault, anon, buckets, ui>>

NextSanitize == \E text \in Texts : Sanitize(text)

SpecSanitize == Init /\ [][NextSanitize]_vars

\* ------------------------------------------------------ list routes, paging
\* A query value is the string as its characters; a parameter that is not
\* given is not in the query's domain.
QueryChars == {"-", "0", "3", "x"}
QueryValues == UNION {[1..n -> QueryChars] : n \in 0..MaxQueryLen}
SortValues == {"", "likes", "title"}
NoParams == [name \in {} |-> <<>>]

Param(name, values) == {NoParams} \cup {name :> value : value \in values}

RouteCategories == {"tech", "nowhere"}

\* Number values: NaN, or an integer.
NaN == [nan |-> TRUE, value |-> 0]
Number(n) == [nan |-> FALSE, value |-> n]

Digits == ("0" :> 0) @@ ("3" :> 3) @@ ("a" :> 10)
IsDigit(char, radix) == char \in DOMAIN Digits /\ Digits[char] < radix

RECURSIVE ParseDigits(_, _, _)
ParseDigits(text, radix, value) ==
    IF text = <<>> \/ ~IsDigit(Head(text), radix) THEN value
    ELSE ParseDigits(Tail(text), radix, value * radix + Digits[Head(text)])

\* parseInt(string) with no radix: leading white space, a sign, 0x for
\* radix 16, then the longest run of digits; NaN when there is none.
parseInt(text) ==
    LET s == TrimStart(text)
        signed == s # <<>> /\ Head(s) \in {"-", "+"}
        u == IF signed THEN Tail(s) ELSE s
        hex == Len(u) >= 2 /\ u[1] = "0" /\ u[2] \in {"x", "X"}
        radix == IF hex THEN 16 ELSE 10
        d == IF hex THEN SubSeq(u, 3, Len(u)) ELSE u
    IN  IF d = <<>> \/ ~IsDigit(Head(d), radix) THEN NaN
        ELSE Number((IF signed /\ Head(s) = "-" THEN -1 ELSE 1)
                    * ParseDigits(d, radix, 0))

\* parseInt(req.query[name]) after sanitizeInput; parseInt(undefined) is NaN.
parseIntQuery(query, name) ==
    IF name \in DOMAIN query THEN parseInt(sanitizeString(query[name])) ELSE NaN

\* number || fallback: NaN and 0 are falsy.
OrElse(number, fallback) ==
    IF number.nan \/ number.value = 0 THEN fallback ELSE number.value

MathMax(a, b) == IF a >= b THEN a ELSE b
MathMin(a, b) == IF a <= b THEN a ELSE b
MathCeil(a, b) == IF a % b = 0 THEN a \div b ELSE (a \div b) + 1

effectivePage(query) == MathMax(1, OrElse(parseIntQuery(query, "page"), 1))

UncappedLimit(query) ==
    MathMax(1, OrElse(parseIntQuery(query, "limit"), DefaultLimit))

effectiveLimit(query) ==
    MathMin(MaxLimit, MathMax(1, OrElse(parseIntQuery(query, "limit"), DefaultLimit)))

allowedSortFields == {"createdAt", "likes", "commentCount"}

\* req.query.sort || 'createdAt', then the check against allowedSortFields.
finalSortBy(query) ==
    LET sortBy == IF "sort" \in DOMAIN query /\ query["sort"] # ""
                  THEN query["sort"] ELSE "createdAt"
    IN  IF sortBy \in allowedSortFields THEN sortBy ELSE "createdAt"

paginationOf(page, limit, total) ==
    [current |-> page, total |-> MathCeil(total, limit),
     hasNext |-> page < MathCeil(total, limit), hasPrev |-> page > 1]

CalcFrame ==
    UNCHANGED <<now, posts, comments, nextPost, nextComment, reqs, resp, limiter,
                chain, logs, vault, anon, buckets, ui>>

\* GET /api/posts with total posts matching the query.
ListPosts(query, total) ==
    /\ calc = NoCalc
    /\ calc' = [call |-> "list", route |-> "/", query |-> query,
                total |-> total, status |-> 200,
                page |-> effectivePage(query), limit |-> effectiveLimit(query),
                skip |-> (effectivePage(query) - 1) * effectiveLimit(query),
                sort |-> finalSortBy(query),
                pagination |-> paginationOf(effectivePage(query),
                                          effectiveLimit(query), total)]
    /\ CalcFrame

\* GET /api/posts/category/:category: the order is always createdAt.
ListCategory(category, query, total) ==
    /\ calc = NoCalc
    /\ calc' = IF category \notin Categories
               THEN [call |-> "list", route |-> "/category", query |-> query,
                     total |-> total, status |-> 400]
               ELSE [call |-> "list", route |-> "/category", query |-> query,
                     total |-> total, status |-> 200,
                     page |-> effectivePage(query),
                     limit |-> effectiveLimit(query),
                     skip |-> (effectivePage(query) - 1) * effectiveLimit(query),
                     sort |-> "createdAt",
                     pagination |-> paginationOf(effectivePage(query),
                                               effectiveLimit(query), total)]
    /\ CalcFrame

\* One request in a behaviour.
NextPaging ==
    /\ calc = NoCalc
    /\ \E page \in Param("page", QueryValues),
          limit \in Param("limit", QueryValues), total \in 0..MaxTotal :
          \/ \E sort \in Param("sort", SortValues) :
                ListPosts(page @@ limit @@ sort, total)
          \/ \E category \in RouteCategories :
                ListCategory(category, page @@ limit, total)

SpecPaging == Init /\ [][NextPaging]_vars

\* ------------------------------------------------------ frontend, AnonForum
\* The posts a list request for a page returns: the model's server holds
\* MaxPages pages of one post each, told apart by page, category and sort.
PageOfPosts(page, category, sort) ==
    IF page >= 1 /\ page <= MaxPages
    THEN <<[page |-> page, category |-> category, sort |-> sort]>>
    ELSE <<>>

\* response.pagination of the list route.
Pagination(page) ==
    paginationOf(page, 1, MaxPages)

FrontCategories == {"all", "tech"}
FrontSorts == {"createdAt", "likes"}

\* A guard that never holds.
NeverBusy(u) == FALSE

\* loadPosts: if (this.isLoading) return;
Busy(u) == u.isLoading

\* loadPosts(page, append) up to its await: the request is sent with the
\* category and sort of this moment.
loadPosts(u, page, append, caller) ==
    IF Busy(u) \/ Len(u.flights) >= MaxInFlight THEN u
    ELSE [u EXCEPT !.isLoading = TRUE,
                   !.flights = Append(@, [page |-> page, append |-> append,
                                          category |-> u.currentCategory,
                                          sort |-> u.currentSort,
                                          caller |-> caller])]

\* hasMorePosts: nextBtn && !nextBtn.disabled
hasMorePosts(u) == ~u.nextDisabled

\* loadMorePosts
loadMorePosts(u) ==
    IF hasMorePosts(u) THEN loadPosts(u, u.currentPage + 1, TRUE, "scroll") ELSE u

\* updatePagination(pagination)
updatePagination(u, pagination) ==
    IF pagination.total <= 1 THEN u
    ELSE [u EXCEPT !.nextDisabled = ~pagination.hasNext]

\* filterPosts and sortPosts have run to their end when their loadPosts has:
\* at once when it returned at its guard.
Ended(before, after, caller) ==
    [after EXCEPT !.done = IF Busy(before) THEN caller ELSE ""]

FrontFrame ==
    UNCHANGED <<now, posts, comments, nextPost, nextComment, reqs, resp, limiter,
                chain, logs, vault, anon, buckets, calc>>

\* init, refreshPosts and handlePostSubmit: loadPosts(1)
RefreshPosts ==
    /\ ui' = [loadPosts(ui, 1, FALSE, "refresh") EXCEPT !.done = ""]
    /\ FrontFrame

\* autoRefresh, every minute
AutoRefresh ==
    /\ ~ui.isLoading
    /\ ui.currentPage = 1
    /\ ui' = [loadPosts(ui, 1, FALSE, "autoRefresh") EXCEPT !.done = ""]
    /\ FrontFrame

\* The scroll listener of initInfiniteScroll.
Scroll ==
    /\ ~ui.isLoading
    /\ hasMorePosts(ui)
    /\ Len(ui.posts) < MaxShown
    /\ ui' = [loadMorePosts(ui) EXCEPT !.done = ""]
    /\ FrontFrame

\* filterPosts(category)
FilterPosts(category) ==
    /\ ui' = Ended(ui, loadPosts([ui EXCEPT !.currentCategory = category,
                                            !.currentPage = 1],
                                 1, FALSE, "filter"), "filter")
    /\ FrontFrame

\* sortPosts(), the select holding sort
SortPosts(sort) ==
    /\ ui' = Ended(ui, loadPosts([ui EXCEPT !.currentSort = sort, !.currentPage = 1],
                                 1, FALSE, "sort"), "sort")
    /\ FrontFrame

\* changePage(direction)
ChangePage(direction) ==
    /\ ui.currentPage + direction >= 1
    /\ ui.currentPage + direction <= MaxPages
    /\ ui' = [loadPosts(ui, ui.currentPage + direction, FALSE, "changePage")
                 EXCEPT !.done = ""]
    /\ FrontFrame

Without(seq, i) == SubSeq(seq, 1, i - 1) \o SubSeq(seq, i + 1, Len(seq))

\* loadPosts after its await, the request answered: the try block and finally.
Resolve ==
    /\ \E i \in 1..Len(ui.flights) :
          LET r == ui.flights[i]
              response == PageOfPosts(r.page, r.category, r.sort)
              shown == IF r.append
                       THEN [ui EXCEPT !.posts = @ \o response]
                       ELSE [ui EXCEPT !.posts = response, !.currentPage = r.page]
          IN  ui' = [updatePagination(shown, Pagination(r.page)) EXCEPT
                        !.isLoading = FALSE,
                        !.flights = Without(@, i),
                        !.done = IF r.caller \in {"filter", "sort"} THEN r.caller ELSE ""]
    /\ FrontFrame

\* loadPosts after its await, the request failed: catch and finally.
Fail ==
    /\ \E i \in 1..Len(ui.flights) :
          ui' = [ui EXCEPT !.isLoading = FALSE, !.flights = Without(@, i), !.done = ""]
    /\ FrontFrame

Settle == Resolve \/ Fail

NextFrontend ==
    \/ RefreshPosts
    \/ AutoRefresh
    \/ Scroll
    \/ \E category \in FrontCategories : FilterPosts(category)
    \/ \E sort \in FrontSorts : SortPosts(sort)
    \/ \E direction \in {-1, 1} : ChangePage(direction)
    \/ Resolve
    \/ Fail

SpecFrontend == Init /\ [][NextFrontend]_vars

\* Every request sent is answered or fails in the end.
SpecFrontendLive == SpecFrontend /\ WF_vars(Settle)

\* ------------------------------------------------------ rate-limit keys
\* The five limiters: globalLimiter, postLimiter, commentLimiter and the two
\* made by createIPRateLimiter for like and flag.
LimiterScopes == {"global", "post", "comment", "like", "flag"}

\* req.ip and the User-Agent header of a request.
Addresses == {"10.0.0.1", "10.0.0.12"}
UserAgents == {"x", "2x"}

\* crypto.createHash('sha256').update(identifier).digest('hex')
Sha256(identifier) == <<"sha256", identifier>>

\* The key a limiter counts a request under: createIPRateLimiter passes a
\* keyGenerator, the limiters of server.js pass none and get req.ip.
keyGenerator(scope, ip, ua) ==
    IF scope \in {"like", "flag"} THEN Sha256(ip \o ua) ELSE ip

\* The requests a limiter's store has counted under a key.
BucketCount(store, key) == IF key \in DOMAIN store THEN store[key] ELSE 0

Increment(store, key) ==
    [k \in DOMAIN store \cup {key} |-> BucketCount(store, k) + (IF k = key THEN 1 ELSE 0)]

Counted == buckets.total

\* A request passes the limiter of a scope: its store counts it under its key.
CountRequest(scope, ip, ua) ==
    /\ Counted < MaxCounted
    /\ buckets' = [stores |-> [buckets.stores EXCEPT
                                  ![scope] = Increment(@, keyGenerator(scope, ip, ua))],
                   last |-> [scope |-> scope, ip |-> ip, ua |-> ua],
                   total |-> Counted + 1]
    /\ UNCHANGED <<now, posts, comments, nextPost, nextComment, reqs, resp, limiter,
                   chain, logs, vault, anon, ui, calc>>

NextKeys ==
    \E scope \in LimiterScopes, ip \in Addresses, ua \in UserAgents :
       CountRequest(scope, ip, ua)

SpecKeys == Init /\ [][NextKeys]_vars

\* ------------------------------------------------------ content encryption
Plaintexts == {"hello", "world"}

\* process.env.ENCRYPTION_KEY when it is configured.
ConfiguredKey == "envkey"

\* What crypto.randomBytes can return for a key and for an iv.
RandomKeys == {"rk1", "rk2"}
Ivs == {"iv1", "iv2"}

Placeholder == "[Content could not be decrypted]"

\* Buffer.from(process.env.ENCRYPTION_KEY || crypto.randomBytes(32).toString('hex'), 'hex')
KeyOf(env, rk) == IF env # "" THEN env ELSE rk

\* crypto.createCipher(algorithm, key) with the AAD 'anonforum': update and
\* final give the ciphertext, getAuthTag the tag; neither takes an iv.
Ciphertext(key, content) == <<"aes-256-gcm", key, content>>
AuthTag(key, content) == <<"tag", key, "anonforum", content>>

\* encryptContent(content): rk and iv are the two crypto.randomBytes draws.
encryptContent(env, content, rk, iv) ==
    [content |-> Ciphertext(KeyOf(env, rk), content),
     iv |-> iv,
     authTag |-> AuthTag(KeyOf(env, rk), content)]

\* The body of decryptContent's try block: a missing argument or field
\* throws in Buffer.from, a wrong key, tag or ciphertext in decipher.final.
Decipher(key, data) ==
    IF ~({"content", "authTag"} \subseteq DOMAIN data)
    THEN [threw |-> TRUE, value |-> ""]
    ELSE IF \E p \in Plaintexts : /\ data.content = Ciphertext(key, p)
                                  /\ data.authTag = AuthTag(key, p)
         THEN [threw |-> FALSE,
               value |-> CHOOSE p \in Plaintexts : data.content = Ciphertext(key, p)]
         ELSE [threw |-> TRUE, value |-> ""]

\* decryptContent without its try/catch.
decryptContentUncaught(env, data, rk) ==
    LET r == Decipher(KeyOf(env, rk), data)
    IN  [raised |-> r.threw, value |-> r.value]

\* decryptContent(encryptedData): catch (error) returns the placeholder.
decryptContent(env, data, rk) ==
    LET r == Decipher(KeyOf(env, rk), data)
    IN  [raised |-> FALSE, value |-> IF r.threw THEN Placeholder ELSE r.value]

\* null or undefined: a value with no fields to read.
Null == <<>>

Tampers == {"none", "authTag", "content", "noAuthTag", "null"}

\* What a caller hands to decryptContent in place of a sealed value.
Tamper(data, t) ==
    CASE t = "none" -> data
      [] t = "authTag" -> [data EXCEPT !.authTag = <<"tampered">>]
      [] t = "content" -> [data EXCEPT !.content = <<"tampered">>]
      [] t = "noAuthTag" -> [f \in {"content", "iv"} |-> data[f]]
      [] t = "null" -> Null

\* ENCRYPTION_KEY is read from the environment the process was started with.
LoadEnv ==
    /\ vault = NoVault
    /\ vault' = [vault EXCEPT !.env = ConfiguredKey]
    /\ UNCHANGED <<now, posts, comments, nextPost, nextComment, reqs, resp, limiter,
                   chain, logs, anon, rest>>

\* Post.encryptContent(content) / Comment.encryptContent(content)
Encrypt(content) ==
    /\ \E rk \in RandomKeys, iv \in Ivs :
          vault' = [vault EXCEPT
                      !.again = vault.sealed,
                      !.sealed = [plain |-> content,
                                  out |-> encryptContent(vault.env, content, rk, iv)],
                      !.opened = <<>>]
    /\ UNCHANGED <<now, posts, comments, nextPost, nextComment, reqs, resp, limiter,
                   chain, logs, anon, rest>>

\* Post.decryptContent(encryptedData) / Comment.decryptContent(encryptedData)
Decrypt(t) ==
    /\ vault.sealed # <<>>
    /\ \E rk \in RandomKeys :
          vault' = [vault EXCEPT
                      !.opened = [plain |-> vault.sealed.plain, tamper |-> t,
                                  result |-> decryptContent(vault.env,
                                                Tamper(vault.sealed.out, t), rk)]]
    /\ UNCHANGED <<now, posts, comments, nextPost, nextComment, reqs, resp, limiter,
                   chain, logs, anon, rest>>

NextCrypto ==
    \/ LoadEnv
    \/ \E content \in Plaintexts : Encrypt(content)
    \/ \E t \in Tampers : Decrypt(t)

SpecCrypto == Init /\ [][NextCrypto]_vars

\* Get by id and like on a post that is flagged, deleted, expired or purged,
\* one request at a time.
NextReadable ==
    \/ Tick
    \/ \E s \in One, p \in PostIds : LikeFind(s, p) /\ UNCHANGED limiter
    \/ \E s \in One : LikeSave(s)
    \/ \E s \in One, p \in PostIds :
          FlagFind(s, p, PostFlagThreshold + MaxOver) /\ UNCHANGED limiter
    \/ \E s \in One : FlagSave(s)
    \/ \E s \in One, p \in DOMAIN posts : SoftDeletePost(s, p)
    \/ \E s \in One : SavePost(s)
    \/ \E p \in DOMAIN posts : ExpirePost(p)
    \/ \E p \in PostIds : GetPostById(p)

SpecReadable == InitPost /\ [][NextReadable]_vars

\* ---------------------------------------------------------------- claims
AllIdle == \A s \in Slots : reqs[s].kind = "idle"

LiveComments(p) ==
    {c \in DOMAIN comments : comments[c].postId = p /\ ~comments[c].isDeleted}

\* C1: once the comment operations on a post have run to their end, the
\* post's commentCount is the number of its comments that are not deleted.
C1_CommentCountIsLiveComments ==
    AllIdle => \A p \in DOMAIN posts :
                   posts[p].commentCount = Cardinality(LiveComments(p))

\* C2: when the comment creations on a post that ran together have all
\* ended, the post's commentCount is the number of comments created on it.
C2_NoLostIncrement ==
    AllIdle => \A p \in DOMAIN posts :
                   posts[p].commentCount
                     = Cardinality({c \in DOMAIN comments : comments[c].postId = p})

\* C3: the statistics overview counts no post and no comment that is
\* expired, soft-deleted or flagged.
C3_StatsCountOnlyVisible ==
    [][(resp' # resp /\ resp'.op = "stats") =>
          /\ resp'.n = Cardinality({p \in DOMAIN posts : Visible(posts[p], now)})
          /\ resp'.id = Cardinality({c \in DOMAIN comments :
                                       Visible(comments[c], now)})]_vars

C5_AtMostFivePostsPerWindow == \A k \in Keys : accepted[k] <= 5

\* C6: a like or flag request counted when its key already stands at the
\* scope's max is answered 429 with retryAfter 60 (like) or 300 (flag), and
\* leaves every post and every request in flight as it was.
C6_RejectedWithRetryAfter ==
    [][\A k \in Keys :
          /\ (hits["like"][k] >= 10 /\ hits'["like"][k] = hits["like"][k] + 1)
             => /\ resp'.status = 429
                /\ resp'.retryAfter = 60
                /\ UNCHANGED <<posts, reqs>>
          /\ (hits["flag"][k] >= 3 /\ hits'["flag"][k] = hits["flag"][k] + 1)
             => /\ resp'.status = 429
                /\ resp'.retryAfter = 300
                /\ UNCHANGED <<posts, reqs>>]_vars

C6_Witness ==
    /\ resp.op = "flag"
    /\ resp.status = 429
    /\ resp.retryAfter = 300
    /\ posts[1].flagCount = 3
    /\ posts[1].likes = 1
    /\ \E k \in Keys : hits["like"][k] > 10

\* C7: a flag call adds one to flagCount; isFlagged turns true on the call
\* that brings flagCount to 5 (post) or 3 (comment) and on no other, and
\* stays true afterwards; the response's flagged is the new isFlagged.
C7_FlagFlipsAtThreshold ==
    [][\A s \in One :
          /\ (reqs[s].kind = "flag" /\ reqs'[s].kind = "idle"
                /\ reqs[s].pid \in DOMAIN posts)
             => LET old == posts[reqs[s].pid]
                    new == posts'[reqs[s].pid]
                IN  /\ new.flagCount = old.flagCount + 1
                    /\ (~old.isFlagged /\ new.isFlagged) <=> (new.flagCount = 5)
                    /\ old.isFlagged => new.isFlagged
                    /\ resp'.status = 200
                    /\ resp'.flagged = new.isFlagged
          /\ (reqs[s].kind = "commentMethod" /\ reqs[s].pc = "presave"
                /\ reqs'[s].pc = "postsave" /\ "flagCount" \in reqs[s].mod /\ reqs[s].cid \in DOMAIN comments)
             => LET old == comments[reqs[s].cid]
                    new == comments'[reqs[s].cid]
                IN  /\ new.flagCount = old.flagCount + 1
                    /\ (~old.isFlagged /\ new.isFlagged) <=> (new.flagCount = 3)
                    /\ old.isFlagged => new.isFlagged]_vars

C7_Witness ==
    /\ resp.op = "flag"
    /\ resp.status = 200
    /\ resp.flagged
    /\ posts[1].flagCount = 7
    /\ \E c \in DOMAIN comments : comments[c].flagCount = 4 /\ comments[c].isFlagged

\* C8: a stored post or comment whose isFlagged is true keeps it true in
\* every step, whatever copies the requests in flight hold.
C8_IsFlaggedMonotonic ==
    [][/\ \A p \in DOMAIN posts \cap DOMAIN posts' :
             posts[p].isFlagged => posts'[p].isFlagged
       /\ \A c \in DOMAIN comments \cap DOMAIN comments' :
             comments[c].isFlagged => comments'[c].isFlagged]_vars

\* A flagged post whose flagCount was written back from an earlier copy.
C8_Witness ==
    /\ posts[1].isFlagged
    /\ posts[1].flagCount < 5
    /\ posts[1].isDeleted
    /\ posts[1].likes = 1

\* C9: every stored comment has an expiresAt, and it is the expiresAt of
\* its post for as long as the post is stored; a comment is inserted only
\* while its post is stored.
C9_CommentExpiresWithPost ==
    [][\A c \in DOMAIN comments' :
          LET p == comments'[c].postId
          IN  /\ comments'[c].expiresAt # NoDate
              /\ p \in DOMAIN posts'
                 => comments'[c].expiresAt = posts'[p].expiresAt
              /\ c \notin DOMAIN comments
                 => /\ p \in DOMAIN posts
                    /\ comments'[c].expiresAt = posts[p].expiresAt]_vars

C9_Witness ==
    \E c \in DOMAIN comments :
        /\ comments[c].postId \in DOMAIN posts
        /\ comments[c].createdAt > posts[comments[c].postId].createdAt
        /\ now >= comments[c].expiresAt

\* C10: a stored post's expiresAt is its createdAt plus seven days.
C10_ExpiresSevenDaysAfterCreatedAt ==
    \A p \in DOMAIN posts : posts[p].expiresAt = posts[p].createdAt + SevenDays

\* C14: a label is one of the eight prefix words followed by a number of
\* exactly four digits, 1000..9999.
C14_LabelHasFourDigits ==
    anon # <<>> =>
        /\ \E i \in 1..8 : anon.label.prefix = prefixes[i]
        /\ anon.label.number >= 1000
        /\ anon.label.number <= 9999

\* C15: decryptContent of what encryptContent returned gives the plaintext
\* back, with ENCRYPTION_KEY configured and without.
C15_DecryptInvertsEncrypt ==
    (vault.opened # <<>> /\ vault.opened.tamper = "none")
    => /\ ~vault.opened.result.raised
       /\ vault.opened.result.value = vault.opened.plain

\* C16: two encryptions of one plaintext under one key that drew different
\* ivs have different ciphertexts.
C16_FreshIvChangesCiphertext ==
    (/\ vault.sealed # <<>>
     /\ vault.again # <<>>
     /\ vault.env = ConfiguredKey
     /\ vault.sealed.plain = vault.again.plain
     /\ vault.sealed.out.iv # vault.again.out.iv)
    => vault.sealed.out.content # vault.again.out.content

\* C17: decryptContent raises nothing and returns the plaintext that was
\* sealed or the placeholder, whatever it is given.
C17_DecryptNeverRaises ==
    vault.opened # <<>>
    => /\ ~vault.opened.result.raised
       /\ vault.opened.result.value \in {vault.opened.plain, Placeholder}

C17_Witness ==
    /\ vault.opened # <<>>
    /\ vault.env = ConfiguredKey
    /\ vault.opened.tamper = "authTag"
    /\ ~vault.opened.result.raised
    /\ vault.opened.result.value = Placeholder

Hidden(p) ==
    \/ p \notin DOMAIN posts
    \/ posts[p].expiresAt <= now
    \/ posts[p].isDeleted
    \/ posts[p].isFlagged

\* C18: get by id and like answer one and the same 404 for a post id that
\* is absent, expired, soft-deleted or flagged, and like starts no update.
C18_HiddenPostsAnswerAlike ==
    [][\A p \in PostIds :
          Hidden(p) =>
            /\ (resp' # resp /\ resp'.op \in {"get", "like"} /\ resp'.id = p
                  /\ AllIdle)
               => resp' = Respond(resp'.op, 404, p, {}, 0, FALSE)
            /\ \A s \in Slots :
                  (reqs[s].kind = "idle" /\ reqs'[s].kind = "like")
                  => reqs'[s].pid # p]_vars

C18_Witness ==
    /\ resp = Respond("like", 404, 1, {}, 0, FALSE)
    /\ 1 \in DOMAIN posts
    /\ posts[1].isFlagged
    /\ ~posts[1].isDeleted
    /\ posts[1].expiresAt > now

\* C19: an accepted like adds exactly one to the post's likes and answers
\* with the new value, whichever origin sent it.
C19_LikeAddsOne ==
    [][\A s \in One :
          (reqs[s].kind = "like" /\ reqs'[s].kind = "idle"
             /\ reqs[s].pid \in DOMAIN posts)
          => /\ posts'[reqs[s].pid].likes = posts[reqs[s].pid].likes + 1
             /\ resp'.status = 200
             /\ resp'.n = posts'[reqs[s].pid].likes]_vars

C19_Witness ==
    /\ resp.op = "like"
    /\ resp.status = 200
    /\ resp.n = 2
    /\ posts[1].likes = 2
    /\ hits["like"]["a"] = 2
    /\ hits["like"]["b"] = 0

Last(seq) == seq[Len(seq)]

\* C11: the suspicious-pattern guard and the validators are handed the input
\* as it was submitted, before sanitization has altered it.
C11_GuardsSeeSubmittedInput ==
    (/\ chain.ran # <<>>
     /\ Last(chain.ran) \in {"suspiciousActivityDetector", "postValidationRules"})
    => chain.body = chain.raw

FailingFields(body) ==
    {f \in {"title"} : ~isLength(body.title, 3, 200) \/ ~TitleMatches(body.title)}
    \cup {f \in {"content"} : ~isLength(body.content, 10, 5000) \/ spamPatterns(body.content)}
    \cup {f \in {"category"} : body.category \notin Categories}

FailedValidation == chain.stage = "done" /\ chain.error = "Validation failed"

DetailFields == {chain.details[i].field : i \in 1..Len(chain.details)}

UrlCount(text) == Cardinality({i \in 1..Len(text) : text[i] = "url"})

\* C13: a create-post request whose content holds three URLs or more is
\* never accepted.
C13_ThreeUrlsAreRejected ==
    (chain.stage = "done" /\ UrlCount(chain.raw.content) >= 3)
    => chain.status # 201

\* C20: no log entry of a rejection holds the raw network address or a full
\* submitted field value.
C20_LogsHoldNoAddressNoFullValue ==
    \A e \in logs : e.ip = "" /\ e.values = {}

\* C21: a counted request changes the count of the bucket of a scope and an
\* (address, user-agent) pair exactly when it is in that scope and from that
\* pair.
C21_BucketPerScopeAndPair ==
    [][buckets' # buckets =>
         \A scope \in LimiterScopes, ip \in Addresses, ua \in UserAgents :
            LET key == keyGenerator(scope, ip, ua)
            IN  (BucketCount(buckets'.stores[scope], key)
                    # BucketCount(buckets.stores[scope], key))
                <=> buckets'.last = [scope |-> scope, ip |-> ip, ua |-> ua]]_vars

\* C22: no post and no comment in a response has the member ipHash or
\* userAgent.
C22_ResponsesHideOrigin ==
    (resp.paths \cup resp.commentPaths) \cap {"ipHash", "userAgent"} = {}

\* C23: a sanitized string holds no angle bracket and none of javascript:,
\* data:, vbscript:, and sanitizing it again leaves it as it is.
C23_SanitizedIsCleanAndStable ==
    calc # <<>> /\ calc.call = "sanitizeInput"
    => /\ ~Contains(calc.once, AngleBrackets \cup JavascriptProtocol
                                  \cup DataProtocol \cup VbscriptProtocol)
       /\ calc.twice = calc.once

\* C24: every like that is saved, whatever ran between its read and its save,
\* leaves the stored likes one higher than the save found them.
C24_NoLikeLost ==
    [][\A s \in Slots :
          (reqs[s].kind = "like" /\ reqs'[s].kind = "idle"
             /\ reqs[s].pid \in DOMAIN posts)
          => posts'[reqs[s].pid].likes = posts[reqs[s].pid].likes + 1]_vars

\* A post id that is absent, expired or soft-deleted.
Gone(p) ==
    \/ p \notin DOMAIN posts
    \/ posts[p].expiresAt <= now
    \/ posts[p].isDeleted

\* The step in which a like or flag request on p looks for the post.
FindStep(kind, p) ==
    /\ AllIdle
    /\ \/ \E s \in Slots : reqs'[s].kind = kind /\ reqs'[s].pid = p
       \/ resp' # resp /\ resp'.op = kind /\ resp'.id = p

\* C25: a like on a post that is absent, expired, soft-deleted or flagged and
\* a flag on a post that is absent, expired or soft-deleted are answered 404
\* and change no stored post; a flag on any other post, a flagged one
\* included, is accepted.
C25_RefusedRequestChangesNothing ==
    [][\A p \in PostIds :
          /\ (Hidden(p) /\ FindStep("like", p))
             => resp'.status = 404 /\ posts' = posts /\ reqs' = reqs
          /\ (Gone(p) /\ FindStep("flag", p))
             => resp'.status = 404 /\ posts' = posts /\ reqs' = reqs
          /\ (~Gone(p) /\ FindStep("flag", p))
             => \E s \in Slots : reqs'[s].kind = "flag" /\ reqs'[s].pid = p]_vars

C25_Witness ==
    /\ resp = Respond("flag", 404, 1, {}, 0, FALSE)
    /\ 1 \in DOMAIN posts
    /\ posts[1].isDeleted
    /\ posts[1].isFlagged
    /\ posts[1].flagCount = PostFlagThreshold + 1

\* C26: while every flag of a post comes from one key within one window of
\* the flag limiter, the post's flagCount stays at 3 or less and the post is
\* not flagged.
C26_OneKeyCannotHide ==
    \A p \in DOMAIN posts :
       /\ posts[p].flagCount <= FlagMax
       /\ ~posts[p].isFlagged

C26_Witness ==
    /\ AllIdle
    /\ hits["flag"]["a"] > FlagMax
    /\ resp.op = "flag"
    /\ resp.status = 429
    /\ posts[1].flagCount = FlagMax
    /\ ~posts[1].isFlagged

\* C27: this.posts holds no post twice, so no page was appended twice since
\* the last load that replaced the list.
C27_NoPostTwice ==
    \A i, j \in 1..Len(ui.posts) : i # j => ui.posts[i] # ui.posts[j]

\* C28: when filterPosts or sortPosts has run to its end, every post in
\* this.posts was fetched with the current category and the current sort.
C28_FilterShowsCurrent ==
    ui.done \in {"filter", "sort"}
    => \A i \in 1..Len(ui.posts) :
          /\ ui.posts[i].category = ui.currentCategory
          /\ ui.posts[i].sort = ui.currentSort

\* C29: at most one posts request is in flight, and isLoading, once true,
\* becomes false again.
C29_OneLoadAndReleased ==
    /\ [](Len(ui.flights) <= 1)
    /\ [](ui.isLoading => <>(~ui.isLoading))

C29_Witness ==
    /\ ui.isLoading
    /\ Len(ui.flights) = 1
    /\ ui.flights[1].caller = "scroll"
    /\ ui.posts # <<>>

\* A query value that is a decimal numeral: an optional sign, then digits only.
IsNumeral(value) ==
    LET digits == IF value # <<>> /\ Head(value) = "-" THEN Tail(value) ELSE value
    IN  /\ digits # <<>>
        /\ \A i \in 1..Len(digits) : digits[i] \in {"0", "3"}

\* A numeral whose digits are all 0.
IsZero(value) ==
    IsNumeral(value) /\ \A i \in 1..Len(value) : value[i] \in {"-", "0"}

\* What is read as the number of a query value: after an optional sign, the
\* characters after 0x, or else all of them.
DigitsPart(value) ==
    LET u == IF value # <<>> /\ Head(value) = "-" THEN Tail(value) ELSE value
    IN  IF Len(u) >= 2 /\ u[1] = "0" /\ u[2] = "x"
        THEN SubSeq(u, 3, Len(u)) ELSE u

\* The value begins with no integer, or with one that is zero: every
\* character of the leading run of digits is 0.
NoLeadingIntegerOrZero(value) ==
    LET d == DigitsPart(value)
    IN  \A i \in 1..Len(d) :
           (\A j \in 1..i : d[j] \in {"0", "3"}) => d[i] = "0"

\* The least number of pages of the given size that hold total posts.
IsCeil(pages, total, size) ==
    pages * size >= total /\ (pages - 1) * size < total

PagingHolds ==
    [page |-> calc.page >= 1,
     limit |-> calc.limit >= 1 /\ calc.limit <= MaxLimit,
     pages |-> IsCeil(calc.pagination.total, calc.total, calc.limit),
     prev |-> calc.pagination.hasPrev <=> calc.page > 1,
     next |-> calc.pagination.hasNext <=> calc.page < calc.pagination.total,
     sort |-> ("sort" \notin DOMAIN calc.query
               \/ calc.query["sort"] \notin allowedSortFields)
              => calc.sort = "createdAt"]

Listed == calc # <<>> /\ calc.call = "list" /\ calc.status = 200

====
